---- MODULE Spec2Model ----
(***************************************************************************)
(* A model of the ranker application: the SQLite rating store, the /rate   *)
(* handler (pairwise Elo update of a submitted order), the selection of    *)
(* the next batch (get_media_files), the catalog (MEDIA_DIR) and the user  *)
(* administration that touches the store.                                  *)
(*                                                                         *)
(* Abstractions, stated once:                                              *)
(*  - a media row's integer id is identified with its filename: filename   *)
(*    is UNIQUE, ids are AUTOINCREMENT and media rows are never deleted,   *)
(*    so id <-> filename is a fixed bijection;                             *)
(*  - ratings are fixed-point numbers with one unit = one rating point;    *)
(*    K * E(x) is the logistic expectation rounded to the nearest unit     *)
(*    (the code computes it in IEEE doubles);                              *)
(*  - rated_at (the wall clock) is not modelled;                           *)
(*  - one sqlite3 connection's work is a working copy of the database      *)
(*    that replaces the committed one at commit, under SQLite's single     *)
(*    writer lock;                                                         *)
(*  - the order in which SQLite returns rows that no ORDER BY separates is *)
(*    a list of names kept with the store (scan): any order, the same for  *)
(*    every query;                                                         *)
(*  - a file's content is a fixed function of its name (FileContent) and   *)
(*    SHA-256 is injective: a digest is the tagged byte string.            *)
(***************************************************************************)
EXTENDS Integers, Sequences, FiniteSets, TLC

NULL == "NULL"

Files == {"a.jpg", "b.jpg", "c.jpg", "d.jpg", "e.jpg"}
Users == {"alice", "bob"}
Passwords == {"pw1", "pw2"}
Procs == {"p1", "p2"}

\* program constants
K == 32
DefaultElo == 1000
NUM_MEDIA == 4

\* bounds of the model
MaxCalls == 2
MaxCount == 4
MaxLimit == 3

VARIABLES
    catalog,   \* the regular files of MEDIA_DIR
    db,        \* the committed content of database.db
    lock,      \* the connection holding SQLite's write lock, or NULL
    call,      \* per worker thread: the /rate request it is serving
    calls,     \* number of /rate requests accepted so far
    hist,      \* the committed submissions, in commit order
    sessions,  \* usernames for which a session cookie has been issued
    sel,       \* the batch served by the latest request, if it was GET /
    reply,     \* the result of the latest request, if it was a stats query
    ollama,    \* the content of ollama_config.json
    response,  \* the HTTP response to the latest request, where it is observed
    credentials, \* history: per account, the password last set for it, in clear
    reader     \* the stats query that is between its two SELECT statements

vars == <<catalog, db, lock, call, calls, hist, sessions, sel, reply,
          ollama, response, credentials, reader>>

----------------------------------------------------------------------------
(* Generic helpers *)

Range(s) == {s[x] : x \in DOMAIN s}

EmptyTable == [x \in {} |-> NULL]

Min(a, b) == IF a < b THEN a ELSE b

Abs(x) == IF x < 0 THEN -x ELSE x

\* All sequences of pairwise distinct elements of S.
DistinctSeqs(S) ==
    UNION {{s \in [1..m -> S] : \A x, y \in 1..m : x # y => s[x] # s[y]} :
           m \in 0..Cardinality(S)}

----------------------------------------------------------------------------
(* The rating store *)

hash_password(password) == <<"sha256", password>>

\* A new row starts from rating 0.
ZeroRow == [elo |-> 0, rating_count |-> 0]

\* elo REAL DEFAULT 1000, rating_count INTEGER DEFAULT 0
NewRow == [elo |-> DefaultElo, rating_count |-> 0]

\* INSERT OR REPLACE in place of INSERT OR IGNORE: existing rows are reset.
InsertAllOrReplace(t, ks) ==
    [x \in DOMAIN t \cup ks |-> IF x \in ks THEN NewRow ELSE t[x]]

\* INSERT OR IGNORE INTO t (key) VALUES (k), for every k of ks: a row of
\* the column defaults, unless the key exists.
InsertAllOrIgnore(t, ks) ==
    [x \in DOMAIN t \cup ks |-> IF x \in DOMAIN t THEN t[x] ELSE NewRow]

\* scan is the order in which SQLite returns rows that no ORDER BY puts in
\* order, as a list of item names: it belongs to the store and is the same
\* for every query on it.
EmptyDb ==
    [users |-> EmptyTable, media |-> EmptyTable, user_media |-> EmptyTable,
     rankings |-> <<>>, ranking_seq |-> 0, scan |-> <<>>, embeddings |-> {}]

\* The database once every user of Users has registered.
RegisteredDb == [EmptyDb EXCEPT !.users = [u \in Users |-> hash_password("pw1")]]

\* History, with RegisteredDb: the passwords the users registered with.
RegisteredCredentials == [u \in Users |-> "pw1"]

\* No result: the latest request was not a stats query.
NoReply == [query |-> NULL, username |-> NULL, limit |-> 0, result |-> <<>>]

\* The request's cookies: the session token, if any, is either one that
\* login_post issued for username or one whose signature does not verify.
NoCookie == [token |-> FALSE, signed |-> FALSE, username |-> NULL]

\* No response: the latest request is one whose response is not observed.
NoResponse ==
    [handler |-> NULL, cookie |-> NoCookie, username |-> NULL,
     password |-> NULL, status |-> 0, location |-> NULL, set_cookie |-> NULL]

\* No stats query is between two statements.
NoReader ==
    [pc |-> "idle", username |-> NULL, limit |-> 0, global_rows |-> EmptyTable,
     scan |-> <<>>]

\* ollama_config.json does not exist: load_ollama_config returns '', '', ''.
NoOllama == [url |-> "", api_key |-> "", model |-> ""]

\* The step leaves what only some handlers touch: no response is observed,
\* the configuration and the passwords set so far stay.
Unobserved ==
    /\ response' = NoResponse
    /\ UNCHANGED <<ollama, reader, credentials>>

\* No batch: the latest request was not GET /.
NoSelection ==
    [served |-> FALSE, count |-> 0, files |-> {}, created |-> FALSE,
     base |-> {}, fourth |-> NULL, result |-> <<>>]

----------------------------------------------------------------------------
(* Elo *)

\* Threshold[k] is the largest integer x with K / (1 + 10^(x/400)) >= k - 1/2.
Threshold ==
    <<719, 523, 428, 364, 314, 273, 237, 205, 176, 149, 124, 100, 77, 54, 32,
      10, -11, -33, -55, -78, -101, -125, -150, -177, -206, -238, -274, -315,
      -365, -429, -524, -720>>

\* K * 1 / (1 + 10 ** (x / 400)), rounded to the nearest unit.
KExpected(x) == Cardinality({k \in 1..K : x <= Threshold[k]})

\* Ra = Ra + K * (1 - Ea)   with   Ea = 1 / (1 + 10 ** ((Rb - Ra) / 400))
WinnerNew(Ra, Rb) == Ra + (K - KExpected(Rb - Ra))

\* The loser's update computed from the winner's expectation.
LoserNewWinnerExpectation(Ra, Rb) == Rb + (0 - KExpected(Rb - Ra))

\* Rb = Rb + K * (0 - Eb)   with   Eb = 1 / (1 + 10 ** ((Ra - Rb) / 400))
LoserNew(Ra, Rb) == Rb + (0 - KExpected(Ra - Rb))

----------------------------------------------------------------------------
(* POST /rate, one step per block of the handler *)

IdleCall ==
    [pc |-> "idle", username |-> NULL, files |-> <<>>, ids |-> <<>>,
     ratings |-> EmptyTable, counts |-> EmptyTable,
     user_ratings |-> EmptyTable, user_counts |-> EmptyTable,
     i |-> 0, j |-> 0, log |-> <<>>, at |-> "idle", overlapped |-> FALSE,
     intx |-> FALSE,
     tx |-> EmptyDb, pre |-> EmptyDb, post |-> EmptyDb]

\* files = [f for f in order.split(',') if f]; the form field is given as
\* the list of its comma-separated parts.
SplitOrder(fields) == SelectSeq(fields, LAMBDA f : f # "")

\* The id of the media row of a filename (see the abstractions above).
MediaId(f) == f

\* The slot test taken over unchanged from 0-based positions.
SlotOffByOne(ids, p) == IF Len(ids) > p THEN ids[p] ELSE NULL

\* ids[p] if len(ids) > p else None, for the four slots of a ranking row
Slot(ids, p) == IF Len(ids) >= p THEN ids[p] ELSE NULL

RankingRow(id, username, ids) ==
    [id |-> id, username |-> username,
     first_id |-> Slot(ids, 1), second_id |-> Slot(ids, 2),
     third_id |-> Slot(ids, 3), fourth_id |-> Slot(ids, 4)]

\* No writer excludes another.
CanWriteUnlocked(p) == TRUE

\* SQLite admits one writer: a connection's first write statement needs the
\* write lock, which it keeps until it commits or is closed.
CanWrite(p) == lock \in {NULL, p}

\* What connection p works on when it writes: its transaction's copy, begun
\* from the committed database at its first write.
Working(p) == IF call[p].intx THEN call[p].tx ELSE db

\* The committed database when connection p's transaction began.
Snapshot(p) == IF call[p].intx THEN call[p].pre ELSE db

\* The writes made so far survive the failure.
RollbackKeepsWrites(committed, working) == working

\* A connection closed without commit leaves the committed database.
Rollback(committed, working) == committed

InProgress == {"resolve", "record", "load", "compare", "store", "commit"}

\* The request arrives with a valid session for u.
RateBegin(p, u, fields) ==
    /\ call[p].pc \in {"idle", "done", "failed"}
    /\ calls < MaxCalls
    /\ u \in sessions
    /\ call' = [call EXCEPT ![p] =
                   [IdleCall EXCEPT !.pc = "resolve", !.username = u,
                                    !.files = SplitOrder(fields), !.pre = db,
                                    !.overlapped =
                                        \E q \in Procs \ {p} : call[q].pc \in InProgress]]
    /\ calls' = calls + 1
    /\ UNCHANGED <<catalog, db, lock, hist, sessions>>
    /\ sel' = NoSelection /\ reply' = NoReply /\ Unobserved

\* for f in files: INSERT OR IGNORE INTO media; SELECT id ...; ids.append
RateResolve(p) ==
    LET c == call[p] IN
    /\ c.pc = "resolve"
    /\ IF c.files = <<>>
       THEN /\ call' = [call EXCEPT ![p].pc = "record"]
            /\ UNCHANGED lock
       ELSE /\ CanWrite(p)
            /\ lock' = p
            /\ call' = [call EXCEPT ![p] =
                   [c EXCEPT !.pc = "record",
                             !.intx = TRUE,
                             !.pre = Snapshot(p),
                             !.tx = [Working(p) EXCEPT !.media =
                                        InsertAllOrIgnore(@, Range(c.files))],
                             !.ids = [x \in DOMAIN c.files |-> MediaId(c.files[x])]]]
    /\ UNCHANGED <<catalog, db, calls, hist, sessions>>
    /\ sel' = NoSelection /\ reply' = NoReply /\ Unobserved

\* INSERT INTO rankings (username, first_id, ..., fourth_id, rated_at)
RateRecord(p) ==
    LET c == call[p]
        w == Working(p) IN
    /\ c.pc = "record"
    /\ CanWrite(p)
    /\ lock' = p
    /\ call' = [call EXCEPT ![p] =
           [c EXCEPT !.pc = "load",
                     !.intx = TRUE,
                     !.pre = Snapshot(p),
                     !.tx = [w EXCEPT
                        !.rankings = Append(@, RankingRow(w.ranking_seq + 1,
                                                          c.username, c.ids)),
                        !.ranking_seq = @ + 1]]]
    /\ UNCHANGED <<catalog, db, calls, hist, sessions>>
    /\ sel' = NoSelection /\ reply' = NoReply /\ Unobserved

\* for media_id in ids: read the media row, INSERT OR IGNORE the user_media
\* row and read it
RateLoad(p) ==
    LET c == call[p]
        ms == Range(c.ids)
        um == InsertAllOrIgnore(c.tx.user_media, {<<c.username, m>> : m \in ms}) IN
    /\ c.pc = "load"
    /\ call' = [call EXCEPT ![p] =
           [c EXCEPT !.pc = IF Len(c.ids) >= 2 THEN "compare" ELSE "store",
                     !.tx = [c.tx EXCEPT !.user_media = um],
                     !.ratings = [m \in ms |-> c.tx.media[m].elo],
                     !.counts = [m \in ms |-> c.tx.media[m].rating_count],
                     !.user_ratings = [m \in ms |-> um[<<c.username, m>>].elo],
                     !.user_counts = [m \in ms |-> um[<<c.username, m>>].rating_count],
                     !.i = 1, !.j = 2]]
    /\ UNCHANGED <<catalog, db, lock, calls, hist, sessions>>
    /\ sel' = NoSelection /\ reply' = NoReply /\ Unobserved

\* The winner's new rating is not written back.
SetRatingsLoserOnly(ratings, winner_id, loser_id, Ra, Rb) ==
    [ratings EXCEPT ![loser_id] = Rb]

\* ratings[winner_id] = Ra; ratings[loser_id] = Rb
SetRatings(ratings, winner_id, loser_id, Ra, Rb) ==
    [[ratings EXCEPT ![winner_id] = Ra] EXCEPT ![loser_id] = Rb]

\* Only the winner's count is incremented.
IncCountsWinnerOnly(counts, winner_id, loser_id) ==
    [counts EXCEPT ![winner_id] = @ + 1]

\* counts[winner_id] += 1; counts[loser_id] += 1
IncCounts(counts, winner_id, loser_id) ==
    [[counts EXCEPT ![winner_id] = @ + 1] EXCEPT ![loser_id] = @ + 1]

\* The loop variables after the iteration (i, j) of the nested loops over
\* n ids (positions counted from 1).
NextI(i, j, n) == IF j < n THEN i ELSE i + 1
NextJ(i, j, n) == IF j < n THEN j + 1 ELSE i + 2
LastPair(i, j, n) == j >= n /\ i + 1 >= n

\* One iteration of: for i in range(len(ids)): for j in range(i + 1, len(ids))
RateCompare(p) ==
    LET c == call[p]
        n == Len(c.ids)
        winner_id == c.ids[c.i]
        loser_id == c.ids[c.j]
        Ra == c.ratings[winner_id]
        Rb == c.ratings[loser_id]
        uRa == c.user_ratings[winner_id]
        uRb == c.user_ratings[loser_id]
        Ra2 == WinnerNew(Ra, Rb)
        Rb2 == LoserNew(Ra, Rb)
        uRa2 == WinnerNew(uRa, uRb)
        uRb2 == LoserNew(uRa, uRb)
        entry == [i |-> c.i, j |-> c.j, winner_id |-> winner_id, loser_id |-> loser_id,
                  Ra |-> Ra, Rb |-> Rb, Ra2 |-> Ra2, Rb2 |-> Rb2,
                  uRa |-> uRa, uRb |-> uRb, uRa2 |-> uRa2, uRb2 |-> uRb2] IN
    /\ c.pc = "compare"
    /\ call' = [call EXCEPT ![p] =
           [c EXCEPT !.ratings = SetRatings(@, winner_id, loser_id, Ra2, Rb2),
                     !.user_ratings = SetRatings(@, winner_id, loser_id, uRa2, uRb2),
                     !.counts = IncCounts(@, winner_id, loser_id),
                     !.user_counts = IncCounts(@, winner_id, loser_id),
                     !.log = Append(@, entry),
                     !.i = NextI(c.i, c.j, n),
                     !.j = NextJ(c.i, c.j, n),
                     !.pc = IF LastPair(c.i, c.j, n) THEN "store" ELSE "compare"]]
    /\ UNCHANGED <<catalog, db, lock, calls, hist, sessions>>
    /\ sel' = NoSelection /\ reply' = NoReply /\ Unobserved

\* The rows of every user are updated: WHERE media_id=?
UpdatedAnyUserRow(k, username, ms) == k[2] \in ms

\* UPDATE user_media ... WHERE username=? AND media_id=?, for media_id in ids
UpdatedUserRow(k, username, ms) == k[1] = username /\ k[2] \in ms

\* for media_id in ids: UPDATE media ...; UPDATE user_media ...
RateStore(p) ==
    LET c == call[p]
        ms == Range(c.ids) IN
    /\ c.pc = "store"
    /\ call' = [call EXCEPT ![p] =
           [c EXCEPT !.pc = "commit",
                     !.tx = [c.tx EXCEPT
                        !.media = [m \in DOMAIN @ |->
                            IF m \in ms
                            THEN [elo |-> c.ratings[m], rating_count |-> c.counts[m]]
                            ELSE @[m]],
                        !.user_media = [k \in DOMAIN @ |->
                            IF UpdatedUserRow(k, c.username, ms)
                            THEN [elo |-> c.user_ratings[k[2]],
                                  rating_count |-> c.user_counts[k[2]]]
                            ELSE @[k]]]]]
    /\ UNCHANGED <<catalog, db, lock, calls, hist, sessions>>
    /\ sel' = NoSelection /\ reply' = NoReply /\ Unobserved

\* conn.commit(); conn.close(); 303
RateCommit(p) ==
    LET c == call[p] IN
    /\ c.pc = "commit"
    /\ db' = c.tx
    /\ lock' = IF lock = p THEN NULL ELSE lock
    /\ call' = [call EXCEPT ![p] =
           [IdleCall EXCEPT !.pc = "done", !.username = c.username,
                            !.files = c.files, !.log = c.log,
                            !.overlapped = c.overlapped,
                            !.pre = c.pre, !.post = c.tx]]
    /\ hist' = Append(hist, [username |-> c.username, files |-> c.files])
    /\ UNCHANGED <<catalog, calls, sessions>>
    /\ sel' = NoSelection /\ reply' = NoReply /\ Unobserved

\* A statement (or the commit) raises: the handler ends with the exception
\* and its connection is closed without commit.
RateFail(p) ==
    LET c == call[p] IN
    /\ c.pc \in InProgress
    /\ db' = IF c.intx THEN Rollback(db, c.tx) ELSE db
    /\ lock' = IF lock = p THEN NULL ELSE lock
    /\ call' = [call EXCEPT ![p] =
           [IdleCall EXCEPT !.pc = "failed", !.username = c.username,
                            !.files = c.files, !.pre = c.pre, !.at = c.pc]]
    /\ UNCHANGED <<catalog, calls, hist, sessions>>
    /\ sel' = NoSelection /\ reply' = NoReply /\ Unobserved

\* The first write statement finds the database locked by another
\* connection until the busy timeout: sqlite3.OperationalError.
RateBusy(p) ==
    LET c == call[p] IN
    /\ \/ c.pc = "resolve" /\ c.files # <<>>
       \/ c.pc = "record"
    /\ ~CanWrite(p)
    /\ call' = [call EXCEPT ![p] =
           [IdleCall EXCEPT !.pc = "failed", !.username = c.username,
                            !.files = c.files, !.pre = db, !.at = "busy"]]
    /\ UNCHANGED <<catalog, db, lock, calls, hist, sessions>>
    /\ sel' = NoSelection /\ reply' = NoReply /\ Unobserved

RateStep(p) ==
    \/ RateResolve(p)
    \/ RateRecord(p)
    \/ RateLoad(p)
    \/ RateCompare(p)
    \/ RateStore(p)
    \/ RateCommit(p)

----------------------------------------------------------------------------
(* GET /: get_media_files(username, count) *)

\* The orders random.shuffle can leave a list of the elements of S in.
Shuffles(S) ==
    {s \in [1..Cardinality(S) -> S] : \A x, y \in DOMAIN s : x # y => s[x] # s[y]}

\* The base selection takes up to four files.
BaseSelectionsOfFour(files) ==
    {b \in SUBSET files : Cardinality(b) = Min(NUM_MEDIA, Cardinality(files))}

\* base_selection = files[:base_count] of the shuffled listing, base_count =
\* min(3, len(files)): any base_count files.
BaseSelections(files) ==
    {b \in SUBSET files : Cardinality(b) = Min(3, Cardinality(files))}

RECURSIVE SumElo(_, _)
SumElo(stats, S) ==
    IF S = {} THEN 0
    ELSE LET f == CHOOSE x \in S : TRUE IN stats[f].elo + SumElo(stats, S \ {f})

\* [(fname, elo) for fname, (elo, cnt) in stats.items()
\*  if cnt > 0 and fname not in base_selection]
RatedCandidates(stats, base) ==
    {f \in DOMAIN stats : stats[f].rating_count > 0 /\ f \notin base}

\* min(rated_candidates, key=lambda r: abs(r[1] - avg)), avg the mean rating
\* of the base selection: distances are compared multiplied by len(base).
\* Among equally close candidates min takes the first row of the SELECT,
\* whose order SQL leaves open: any of them.
Closest(stats, candidates, base) ==
    LET n == Cardinality(base)
        sum == SumElo(stats, base)
        dist(f) == Abs(n * stats[f].elo - sum) IN
    {f \in candidates : \A g \in candidates : dist(f) <= dist(g)}

\* The values fourth can take; {NULL} when it stays None.
Fourths(stats, files, base) ==
    LET rated == RatedCandidates(stats, base)
        remaining == files \ base IN
    IF rated # {} THEN Closest(stats, rated, base)
    ELSE IF remaining # {} THEN remaining
    ELSE {NULL}

\* The slice stops one entry short.
BatchLenShort(count, n) == Min(count - 1, n)

\* chosen[: min(count, len(chosen))]: the length of the returned slice of a
\* list of n entries.
BatchLen(count, n) == Min(count, n)

\* What get_media_files can return for a non-empty listing, with the base
\* selection and the fourth item it went through.
Batches(stats, files, count) ==
    LET base_count == Min(3, Cardinality(files)) IN
    IF Cardinality(files) <= 3 \/ count <= base_count
    THEN UNION {
            {[base |-> b, fourth |-> NULL,
              result |-> SubSeq(s, 1, BatchLen(count, Len(s)))] :
                 s \in Shuffles(b)} :
         b \in BaseSelections(files)}
    ELSE UNION {UNION {
            {[base |-> b, fourth |-> f,
              result |-> SubSeq(s, 1, BatchLen(count, Len(s)))] :
                 s \in Shuffles(b \cup (IF f = NULL THEN {} ELSE {f}))} :
            f \in Fourths(stats, files, b)} :
         b \in BaseSelections(files)}

\* A batch of one absent item.
PlaceholderBatch == <<NULL>>

\* if not files: return []
EmptyBatch == <<>>

\* index(): a logged-in user asks for the next batch.
Select(u, count) ==
    /\ u \in sessions
    /\ IF catalog = {}
       THEN /\ sel' = [NoSelection EXCEPT !.served = TRUE, !.count = count,
                                         !.result = EmptyBatch]
            /\ UNCHANGED db
       ELSE /\ lock = NULL
            /\ db' = [db EXCEPT !.media = InsertAllOrIgnore(@, catalog)]
            /\ \E b \in Batches(db'.media, catalog, count) :
                  sel' = [served |-> TRUE, count |-> count,
                          files |-> catalog,
                          created |-> catalog \ DOMAIN db.media # {},
                          base |-> b.base,
                          fourth |-> b.fourth, result |-> b.result]
    /\ reply' = NoReply /\ Unobserved
    /\ UNCHANGED <<catalog, lock, call, calls, hist, sessions>>

----------------------------------------------------------------------------
(* The catalog: files appear in MEDIA_DIR (uploads) and disappear from it  *)
(* (remove_duplicates, the operator).                                      *)

CatalogAdd(f) ==
    /\ f \notin catalog
    /\ catalog' = catalog \cup {f}
    /\ sel' = NoSelection /\ reply' = NoReply /\ Unobserved
    /\ UNCHANGED <<db, lock, call, calls, hist, sessions>>

CatalogRemove(f) ==
    /\ f \in catalog
    /\ catalog' = catalog \ {f}
    /\ sel' = NoSelection /\ reply' = NoReply /\ Unobserved
    /\ UNCHANGED <<db, lock, call, calls, hist, sessions>>

----------------------------------------------------------------------------
(* Accounts: /register, /login, /logout and the admin operations           *)

AdminUsers == {"alice"}

is_admin(username) == username \in AdminUsers

\* The password is not compared: any password of a registered user passes.
VerifyUsernameOnly(d, username, password) == username \in DOMAIN d.users

\* verify_user: row is not None and row[0] == hash_password(password)
verify_user(d, username, password) ==
    /\ username \in DOMAIN d.users
    /\ d.users[username] = hash_password(password)

\* History: password is now the password last set for account u.
SetPassword(c, u, password) ==
    [x \in DOMAIN c \cup {u} |-> IF x = u THEN password ELSE c[x]]

\* INSERT INTO users; an existing username raises IntegrityError (400) and
\* nothing is written.
Register(u, password) ==
    /\ lock = NULL
    /\ u \notin DOMAIN db.users
    /\ db' = [db EXCEPT !.users =
                 [x \in DOMAIN @ \cup {u} |->
                     IF x = u THEN hash_password(password) ELSE @[x]]]
    /\ credentials' = SetPassword(credentials, u, password)
    /\ response' = NoResponse /\ UNCHANGED <<ollama, reader>>
    /\ sel' = NoSelection /\ reply' = NoReply
    /\ UNCHANGED <<catalog, lock, call, calls, hist, sessions>>

\* The browser of u receives a signed session cookie.
Login(u, password) ==
    /\ verify_user(db, u, password)
    /\ sessions' = sessions \cup {u}
    /\ sel' = NoSelection /\ reply' = NoReply /\ Unobserved
    /\ UNCHANGED <<catalog, db, lock, call, calls, hist>>

Logout(u) ==
    /\ u \in sessions
    /\ sessions' = sessions \ {u}
    /\ sel' = NoSelection /\ reply' = NoReply /\ Unobserved
    /\ UNCHANGED <<catalog, db, lock, call, calls, hist>>

\* change_user_password: UPDATE users SET password=? WHERE username=?
change_user_password(d, username, new_password) ==
    [d EXCEPT !.users =
        [x \in DOMAIN @ |->
            IF x = username THEN hash_password(new_password) ELSE @[x]]]

\* POST /admin/change_password by the holder of admin's session cookie.
ChangePassword(admin, target, password) ==
    /\ admin \in sessions
    /\ is_admin(admin)
    /\ lock = NULL
    /\ db' = change_user_password(db, target, password)
    /\ credentials' = IF target \in DOMAIN db.users
                      THEN SetPassword(credentials, target, password)
                      ELSE credentials
    /\ response' = NoResponse /\ UNCHANGED <<ollama, reader>>
    /\ sel' = NoSelection /\ reply' = NoReply
    /\ UNCHANGED <<catalog, lock, call, calls, hist, sessions>>

\* Every event is deleted, whoever recorded it.
DeleteEveryRow(rankings, username) == <<>>

\* DELETE FROM rankings WHERE username=?
DeleteUserRows(rankings, username) ==
    LET Kept(row) == row.username # username IN
    SelectSeq(rankings, Kept)

\* delete_user: the users row and the rankings rows of username; its
\* user_media rows and its session cookie stay.
delete_user(d, username) ==
    [d EXCEPT !.users = [x \in DOMAIN @ \ {username} |-> @[x]],
              !.rankings = DeleteUserRows(@, username)]

\* POST /admin/delete_user by the holder of admin's session cookie.
DeleteUser(admin, target) ==
    /\ admin \in sessions
    /\ is_admin(admin)
    /\ lock = NULL
    /\ db' = delete_user(db, target)
    /\ credentials' = [x \in DOMAIN credentials \ {target} |-> credentials[x]]
    /\ response' = NoResponse /\ UNCHANGED <<ollama, reader>>
    /\ sel' = NoSelection /\ reply' = NoReply
    /\ UNCHANGED <<catalog, lock, call, calls, hist, sessions>>

----------------------------------------------------------------------------
(* POST /admin/remove_duplicates: remove_duplicate_images()                *)

Red == <<255, 0, 0>>
Blue == <<0, 0, 255>>

\* What Image.open finds in each file of the model: its mode, its size
\* (width, height) and its pixels row by row; e.jpg is not an image.
FileContent ==
    "a.jpg" :> [image |-> TRUE, mode |-> "RGB", size |-> <<1, 1>>, pixels |-> <<Red>>] @@
    "b.jpg" :> [image |-> TRUE, mode |-> "RGB", size |-> <<1, 1>>, pixels |-> <<Red>>] @@
    "c.jpg" :> [image |-> TRUE, mode |-> "RGB", size |-> <<1, 1>>, pixels |-> <<Blue>>] @@
    "d.jpg" :> [image |-> TRUE, mode |-> "RGB", size |-> <<2, 1>>,
                pixels |-> <<Red, Blue>>] @@
    "e.jpg" :> [image |-> FALSE] @@
    "cat_1.jpg" :> [image |-> TRUE, mode |-> "RGB", size |-> <<1, 2>>,
                    pixels |-> <<Red, Blue>>] @@
    "Cat2.png" :> [image |-> TRUE, mode |-> "RGBA", size |-> <<1, 1>>,
                   pixels |-> <<Red \o <<0>> >>] @@
    "dog.jpg" :> [image |-> TRUE, mode |-> "RGB", size |-> <<1, 1>>, pixels |-> <<Red>>]

\* img.convert('RGB'): an RGBA pixel loses its alpha value
ConvertRGB(img) ==
    [img EXCEPT !.mode = "RGB",
                !.pixels = [x \in DOMAIN @ |-> SubSeq(@[x], 1, 3)]]

\* img.tobytes(): the bytes of the pixels, row by row
RECURSIVE PixelBytes(_)
PixelBytes(pixels) ==
    IF pixels = <<>> THEN <<>> ELSE Head(pixels) \o PixelBytes(Tail(pixels))

\* h = hashlib.sha256(img.tobytes()).hexdigest(), img converted to RGB
PixelDigest(f) == <<"sha256", PixelBytes(ConvertRGB(FileContent[f]).pixels)>>

\* The values of hashes: the listed files Image.open accepts, by digest.
DigestGroups(files) ==
    LET images == {f \in files : FileContent[f].image} IN
    {{g \in images : PixelDigest(g) = PixelDigest(f)} : f \in images}

\* The listings remove_duplicate_images can leave: of every group the one
\* file that random.shuffle puts last, and every file outside the groups.
Deduplicated(files) ==
    {kept \in SUBSET files :
        /\ \A f \in files \ kept : FileContent[f].image
        /\ \A group \in DigestGroups(files) : Cardinality(group \cap kept) = 1}

RemoveDuplicates(admin) ==
    /\ admin \in sessions
    /\ is_admin(admin)
    /\ \E kept \in Deduplicated(catalog) : catalog' = kept
    /\ sel' = NoSelection /\ reply' = NoReply /\ Unobserved
    /\ UNCHANGED <<db, lock, call, calls, hist, sessions>>

----------------------------------------------------------------------------
(* The handlers with the request's cookies and the response: the identity  *)
(* check at the head of /rate and of the admin operations, /login and      *)
(* /register. The actions above are the same operations by the holder of   *)
(* a session cookie, the response left unobserved.                         *)

\* token = utils.serializer.dumps(username), set by login_post
SessionCookie(u) == [token |-> TRUE, signed |-> TRUE, username |-> u]

\* A session token naming u that the server's key did not sign.
ForgedCookie(u) == [token |-> TRUE, signed |-> FALSE, username |-> u]

\* The cookies a request can carry: none, a forged token, or a token that
\* login_post issued.
Cookies ==
    {NoCookie} \cup {ForgedCookie(u) : u \in Users}
               \cup {SessionCookie(u) : u \in sessions}

\* The token's payload is returned whatever its signature.
UnverifiedUsername(cookie) == IF cookie.token THEN cookie.username ELSE NULL

\* get_username: None without a token and on BadSignature
get_username(cookie) ==
    IF cookie.token /\ cookie.signed THEN cookie.username ELSE NULL

Answer(handler, cookie, status, location) ==
    [NoResponse EXCEPT !.handler = handler, !.cookie = cookie,
                       !.status = status, !.location = location]

\* return RedirectResponse("/login"), before anything else is done
RedirectToLogin(handler, cookie) ==
    /\ response' = Answer(handler, cookie, 307, "/login")
    /\ sel' = NoSelection /\ reply' = NoReply
    /\ UNCHANGED <<catalog, db, lock, call, calls, hist, sessions, ollama, reader,
                   credentials>>

\* POST /rate: the identity check, then the handler's blocks (RateBegin on)
rate(p, cookie, fields) ==
    LET username == get_username(cookie) IN
    /\ cookie \in Cookies
    /\ IF username = NULL
       THEN RedirectToLogin("rate", cookie)
       ELSE RateBegin(p, username, fields)

\* POST /login
login_post(username, password) ==
    /\ IF verify_user(db, username, password)
       THEN /\ sessions' = sessions \cup {username}
            /\ response' =
                 [NoResponse EXCEPT !.handler = "login_post",
                      !.username = username, !.password = password,
                      !.status = 303, !.location = "/",
                      !.set_cookie = SessionCookie(username)]
       ELSE /\ UNCHANGED sessions
            /\ response' =
                 [NoResponse EXCEPT !.handler = "login_post",
                      !.username = username, !.password = password,
                      !.status = 400]
    /\ sel' = NoSelection /\ reply' = NoReply
    /\ UNCHANGED <<catalog, db, lock, call, calls, hist, ollama, reader, credentials>>

\* POST /register
register_post(username, password) ==
    /\ lock = NULL
    /\ IF username \in DOMAIN db.users
       THEN /\ response' =
                 [NoResponse EXCEPT !.handler = "register_post",
                      !.username = username, !.password = password,
                      !.status = 400]
            /\ UNCHANGED <<db, credentials>>
       ELSE /\ db' = [db EXCEPT !.users =
                        [x \in DOMAIN @ \cup {username} |->
                            IF x = username THEN hash_password(password)
                                            ELSE @[x]]]
            /\ credentials' = SetPassword(credentials, username, password)
            /\ response' =
                 [NoResponse EXCEPT !.handler = "register_post",
                      !.username = username, !.password = password,
                      !.status = 303, !.location = "/login"]
    /\ sel' = NoSelection /\ reply' = NoReply
    /\ UNCHANGED <<catalog, lock, call, calls, hist, sessions, ollama, reader>>

\* POST /admin/change_password
admin_change_password(cookie, target_user, new_password) ==
    LET username == get_username(cookie) IN
    /\ cookie \in Cookies
    /\ IF ~is_admin(username)
       THEN RedirectToLogin("admin_change_password", cookie)
       ELSE /\ lock = NULL
            /\ db' = change_user_password(db, target_user, new_password)
            /\ credentials' =
                 IF target_user \in DOMAIN db.users
                 THEN SetPassword(credentials, target_user, new_password)
                 ELSE credentials
            /\ response' = Answer("admin_change_password", cookie, 303, "/admin")
            /\ sel' = NoSelection /\ reply' = NoReply
            /\ UNCHANGED <<catalog, lock, call, calls, hist, sessions, ollama, reader>>

\* POST /admin/delete_user
admin_delete_user(cookie, target_user) ==
    LET username == get_username(cookie) IN
    /\ cookie \in Cookies
    /\ IF ~is_admin(username)
       THEN RedirectToLogin("admin_delete_user", cookie)
       ELSE /\ lock = NULL
            /\ db' = delete_user(db, target_user)
            /\ credentials' =
                 [x \in DOMAIN credentials \ {target_user} |-> credentials[x]]
            /\ response' = Answer("admin_delete_user", cookie, 303, "/admin")
            /\ sel' = NoSelection /\ reply' = NoReply
            /\ UNCHANGED <<catalog, lock, call, calls, hist, sessions, ollama, reader>>

\* POST /admin/upload_media: every uploaded file is written to MEDIA_DIR
\* under its own name.
admin_upload_media(cookie, media_files) ==
    LET username == get_username(cookie) IN
    /\ cookie \in Cookies
    /\ IF ~is_admin(username)
       THEN RedirectToLogin("admin_upload_media", cookie)
       ELSE /\ catalog' = catalog \cup media_files
            /\ response' = Answer("admin_upload_media", cookie, 303, "/admin")
            /\ sel' = NoSelection /\ reply' = NoReply
            /\ UNCHANGED <<db, lock, call, calls, hist, sessions, ollama, reader,
                           credentials>>

\* POST /admin/set_ollama: save_ollama_config(url, api_key, model)
admin_set_ollama(cookie, config) ==
    LET username == get_username(cookie) IN
    /\ cookie \in Cookies
    /\ IF ~is_admin(username)
       THEN RedirectToLogin("admin_set_ollama", cookie)
       ELSE /\ ollama' = config
            /\ response' = Answer("admin_set_ollama", cookie, 303, "/admin")
            /\ sel' = NoSelection /\ reply' = NoReply
            /\ UNCHANGED <<catalog, db, lock, call, calls, hist, sessions,
                           reader, credentials>>

\* The media rows generate_all_embeddings asks the model about: those
\* without an embedding for the model whose file Image.open accepts.
Embeddable(d, files, model) ==
    {f \in DOMAIN d.media :
        /\ <<f, model>> \notin d.embeddings
        /\ f \in files
        /\ FileContent[f].image}

\* generate_all_embeddings: a media row for every file, then an embeddings
\* row for every file the embedding service answers for.
generate_all_embeddings(d, files, model) ==
    LET withRows == [d EXCEPT !.media = InsertAllOrIgnore(@, files)] IN
    {[withRows EXCEPT !.embeddings = @ \cup {<<f, model>> : f \in answered}] :
        answered \in SUBSET Embeddable(withRows, files, model)}

\* POST /admin/generate_embeddings
admin_generate_embeddings(cookie) ==
    LET username == get_username(cookie) IN
    /\ cookie \in Cookies
    /\ IF ~is_admin(username)
       THEN RedirectToLogin("admin_generate_embeddings", cookie)
       ELSE /\ IF ollama.url = "" \/ ollama.model = ""
               THEN /\ response' =
                         Answer("admin_generate_embeddings", cookie, 400, NULL)
                    /\ UNCHANGED db
               ELSE /\ lock = NULL
                    /\ db' \in generate_all_embeddings(db, catalog, ollama.model)
                    /\ response' =
                         Answer("admin_generate_embeddings", cookie, 303, "/admin")
            /\ sel' = NoSelection /\ reply' = NoReply
            /\ UNCHANGED <<catalog, lock, call, calls, hist, sessions, ollama, reader,
                           credentials>>

\* POST /admin/remove_duplicates
admin_remove_duplicates(cookie) ==
    LET username == get_username(cookie) IN
    /\ cookie \in Cookies
    /\ IF ~is_admin(username)
       THEN RedirectToLogin("admin_remove_duplicates", cookie)
       ELSE /\ \E kept \in Deduplicated(catalog) : catalog' = kept
            /\ response' = Answer("admin_remove_duplicates", cookie, 303, "/admin")
            /\ sel' = NoSelection /\ reply' = NoReply
            /\ UNCHANGED <<db, lock, call, calls, hist, sessions, ollama, reader,
                           credentials>>

----------------------------------------------------------------------------
(* The stats queries of utils.py. Ratings and means are fractions          *)
(* <<numerator, denominator>>; the standard deviation get_name_group_elo_  *)
(* stats also reports is not modelled.                                     *)

Max(a, b) == IF a > b THEN a ELSE b

\* Every query may see the rows in another order.
AnyRowOrder(d, keys) == Shuffles(keys)

\* The orders cur.fetchall() can return the rows of keys in: the store's.
RowOrders(d, keys) == {SelectSeq(d.scan, LAMBDA f : f \in keys)}

FracGE(a, b) == a[1] * b[2] >= b[1] * a[2]

\* list.sort(key=..., reverse=True) is stable: x goes behind the entries
\* whose key is not below its own.
InsertDesc(sorted, x, key) ==
    LET n == Cardinality({y \in DOMAIN sorted : FracGE(key[sorted[y]], key[x])}) IN
    SubSeq(sorted, 1, n) \o <<x>> \o SubSeq(sorted, n + 1, Len(sorted))

RECURSIVE SortDesc(_, _)
SortDesc(s, key) ==
    IF s = <<>> THEN <<>>
    ELSE InsertDesc(SortDesc(SubSeq(s, 1, Len(s) - 1), key), s[Len(s)], key)

\* rows[:limit], limit >= 0
FirstRows(rows, limit) == SubSeq(rows, 1, Min(limit, Len(rows)))

\* rows[-limit:], limit >= 0: the whole list when limit is 0
LastRows(rows, limit) ==
    IF limit = 0 THEN rows
    ELSE SubSeq(rows, Max(Len(rows) - limit, 0) + 1, Len(rows))

\* The list is returned as sliced.
Unreversed(rows) == rows

\* rows[::-1]
Reversed(rows) == [x \in DOMAIN rows |-> rows[Len(rows) + 1 - x]]

\* highest = rows[:limit]; lowest = rows[-limit:][::-1]
TopBottom(rows, limit) ==
    [highest |-> FirstRows(rows, limit),
     lowest |-> Reversed(LastRows(rows, limit))]

\* The user_media rows of username, joined with their media rows.
UserRow(d, username, f) ==
    [filename |-> f,
     user_elo |-> d.user_media[<<username, f>>].elo,
     elo |-> d.media[f].elo,
     user_count |-> d.user_media[<<username, f>>].rating_count,
     count |-> d.media[f].rating_count]

get_user_media_stats(d, username, limit) ==
    LET keys == {f \in DOMAIN d.media : <<username, f>> \in DOMAIN d.user_media}
        key == [f \in keys |-> <<d.user_media[<<username, f>>].elo, 1>>] IN
    {LET sorted == SortDesc(o, key)
         rows == [x \in DOMAIN sorted |-> UserRow(d, username, sorted[x])] IN
     TopBottom(rows, limit) : o \in RowOrders(d, keys)}

\* (m, g_elo, user_rows.get(m, (None, 0))[0], g_cnt, user_rows.get(...)[1])
GlobalRow(d, username, f) ==
    LET rated == <<username, f>> \in DOMAIN d.user_media IN
    [filename |-> f,
     elo |-> d.media[f].elo,
     user_elo |-> IF rated THEN d.user_media[<<username, f>>].elo ELSE NULL,
     count |-> d.media[f].rating_count,
     user_count |-> IF rated THEN d.user_media[<<username, f>>].rating_count ELSE 0]

get_global_media_stats_with_user(d, username, limit) ==
    LET keys == DOMAIN d.media
        key == [f \in keys |-> <<d.media[f].elo, 1>>] IN
    {LET sorted == SortDesc(o, key)
         rows == [x \in DOMAIN sorted |-> GlobalRow(d, username, sorted[x])] IN
     TopBottom(rows, limit) : o \in RowOrders(d, keys)}

\* The rows are cut from the end of the ordered list.
LimitFromEnd(rows, limit) ==
    SubSeq(rows, Len(rows) - Min(limit, Len(rows)) + 1, Len(rows))

\* LIMIT ?, with a limit >= 0
Limit(rows, limit) == SubSeq(rows, 1, Min(limit, Len(rows)))

\* SELECT filename, elo, rating_count FROM media ORDER BY elo DESC LIMIT ?
get_elo_rankings(d, limit) ==
    LET keys == DOMAIN d.media
        key == [f \in keys |-> <<d.media[f].elo, 1>>] IN
    {LET sorted == SortDesc(o, key) IN
     Limit([x \in DOMAIN sorted |->
               [filename |-> sorted[x], elo |-> d.media[sorted[x]].elo,
                count |-> d.media[sorted[x]].rating_count]], limit) :
        o \in RowOrders(d, keys)}

\* The names rated in the stats scenario: two numbered variants of one
\* subject and another subject.
StatsNames == {"cat_1.jpg", "Cat2.png", "dog.jpg"}

\* The characters of the file names of the model.
NameChars ==
    "a.jpg" :> <<"a", ".", "j", "p", "g">> @@
    "b.jpg" :> <<"b", ".", "j", "p", "g">> @@
    "c.jpg" :> <<"c", ".", "j", "p", "g">> @@
    "d.jpg" :> <<"d", ".", "j", "p", "g">> @@
    "e.jpg" :> <<"e", ".", "j", "p", "g">> @@
    "cat_1.jpg" :> <<"c", "a", "t", "_", "1", ".", "j", "p", "g">> @@
    "Cat2.png" :> <<"C", "a", "t", "2", ".", "p", "n", "g">> @@
    "dog.jpg" :> <<"d", "o", "g", ".", "j", "p", "g">>

UpperCase ==
    <<"A", "B", "C", "D", "E", "F", "G", "H", "I", "J", "K", "L", "M",
      "N", "O", "P", "Q", "R", "S", "T", "U", "V", "W", "X", "Y", "Z">>

LowerCase ==
    <<"a", "b", "c", "d", "e", "f", "g", "h", "i", "j", "k", "l", "m",
      "n", "o", "p", "q", "r", "s", "t", "u", "v", "w", "x", "y", "z">>

Digits == {"0", "1", "2", "3", "4", "5", "6", "7", "8", "9"}

\* str.lower() on one ASCII character
Lower(ch) ==
    IF \E x \in DOMAIN UpperCase : UpperCase[x] = ch
    THEN LowerCase[CHOOSE x \in DOMAIN UpperCase : UpperCase[x] = ch]
    ELSE ch

\* os.path.splitext(media)[0]: the name up to its last dot, unless only
\* dots precede that dot.
SplitextRoot(chars) ==
    LET dots == {x \in DOMAIN chars : chars[x] = "."}
        last == IF dots = {} THEN 0
                ELSE CHOOSE x \in dots : \A y \in dots : y <= x IN
    IF last > 0 /\ \E x \in 1..(last - 1) : chars[x] # "."
    THEN SubSeq(chars, 1, last - 1)
    ELSE chars

\* The extension stays in the key.
KeepExtension(media) ==
    SelectSeq([x \in DOMAIN NameChars[media] |-> Lower(NameChars[media][x])],
              LAMBDA ch : ch # "_" /\ ch \notin Digits)

\* name.lower().replace('_', ''), then without its digits
NormalizedName(media) ==
    LET root == SplitextRoot(NameChars[media]) IN
    SelectSeq([x \in DOMAIN root |-> Lower(root[x])],
              LAMBDA ch : ch # "_" /\ ch \notin Digits)

RECURSIVE SumCount(_, _)
SumCount(stats, S) ==
    IF S = {} THEN 0
    ELSE LET f == CHOOSE x \in S : TRUE IN
         stats[f].rating_count + SumCount(stats, S \ {f})

\* (name, count, total_ratings, mn, mx, avg) of one group
GroupStat(d, name) ==
    LET members == {f \in DOMAIN d.media : NormalizedName(f) = name}
        ratings == {d.media[f].elo : f \in members} IN
    [name |-> name,
     count |-> Cardinality(members),
     total_ratings |-> SumCount(d.media, members),
     mn |-> CHOOSE r \in ratings : \A q \in ratings : r <= q,
     mx |-> CHOOSE r \in ratings : \A q \in ratings : r >= q,
     avg |-> <<SumElo(d.media, members), Cardinality(members)>>]

\* groups.items(): the keys in the order the rows first bring them up
GroupOrder(o) ==
    LET first == SelectSeq([x \in DOMAIN o |-> x],
                     LAMBDA x : \A y \in 1..(x - 1) :
                                   NormalizedName(o[y]) # NormalizedName(o[x])) IN
    [x \in DOMAIN first |-> NormalizedName(o[first[x]])]

get_name_group_elo_stats(d) ==
    {LET groups == GroupOrder(o)
         key == [name \in Range(groups) |-> GroupStat(d, name).avg]
         sorted == SortDesc(groups, key) IN
     [x \in DOMAIN sorted |-> GroupStat(d, sorted[x])] :
        o \in RowOrders(d, DOMAIN d.media)}

\* One of the four queries, run by a logged-in user on the committed store.
Query(u, query, limit) ==
    /\ u \in sessions
    /\ \E r \in CASE query = "get_user_media_stats" ->
                     get_user_media_stats(db, u, limit)
                [] query = "get_global_media_stats_with_user" ->
                     get_global_media_stats_with_user(db, u, limit)
                [] query = "get_elo_rankings" ->
                     get_elo_rankings(db, limit)
                [] query = "get_name_group_elo_stats" ->
                     get_name_group_elo_stats(db) :
          reply' = [query |-> query,
                    username |-> IF query \in {"get_user_media_stats",
                                    "get_global_media_stats_with_user"}
                                 THEN u ELSE NULL,
                    limit |-> IF query = "get_name_group_elo_stats" THEN 0 ELSE limit,
                    result |-> r]
    /\ sel' = NoSelection /\ Unobserved
    /\ UNCHANGED <<catalog, db, lock, call, calls, hist, sessions>>

Queries ==
    {"get_user_media_stats", "get_global_media_stats_with_user",
     "get_elo_rankings", "get_name_group_elo_stats"}

\* get_global_media_stats_with_user, statement by statement. No statement of
\* it writes, so the connection opens no transaction and each SELECT reads
\* the database as committed when it runs.
\* SELECT filename, elo, rating_count FROM media; global_rows = fetchall()
StatsSelectGlobal(u, limit) ==
    /\ u \in sessions
    /\ reader.pc = "idle"
    /\ reader' = [pc |-> "user_rows", username |-> u, limit |-> limit,
                  global_rows |-> db.media, scan |-> db.scan]
    /\ sel' = NoSelection /\ reply' = NoReply
    /\ response' = NoResponse
    /\ UNCHANGED <<catalog, db, lock, call, calls, hist, sessions, ollama,
                   credentials>>

\* SELECT ... FROM user_media um JOIN media m ... WHERE um.username=?, then
\* the sort and the two lists: the global rows are those read before.
StatsSelectUser ==
    /\ reader.pc = "user_rows"
    /\ \E r \in get_global_media_stats_with_user(
                    [db EXCEPT !.media = reader.global_rows,
                               !.scan = reader.scan],
                    reader.username, reader.limit) :
          reply' = [query |-> "get_global_media_stats_with_user",
                    username |-> reader.username,
                    limit |-> reader.limit,
                    result |-> r]
    /\ reader' = NoReader
    /\ sel' = NoSelection
    /\ response' = NoResponse
    /\ UNCHANGED <<catalog, db, lock, call, calls, hist, sessions, ollama,
                   credentials>>

----------------------------------------------------------------------------
(* Inputs *)

RateNames == {"a.jpg", "b.jpg", "c.jpg"}

\* A repeated name, an empty part, four names, five names.
ExtraOrders ==
    {<<"a.jpg", "a.jpg">>, <<"b.jpg", "", "a.jpg">>,
     <<"d.jpg", "c.jpg", "b.jpg", "a.jpg">>,
     <<"e.jpg", "a.jpg", "b.jpg", "c.jpg", "d.jpg">>}

Orders == DistinctSeqs(RateNames) \cup ExtraOrders

\* The orders submitted concurrently.
ConcOrders ==
    DistinctSeqs({"a.jpg", "b.jpg"}) \cup {<<"c.jpg", "b.jpg", "a.jpg">>}

----------------------------------------------------------------------------
(* One worker serving /rate requests one after the other, both users       *)
(* registered and logged in.                                               *)

InitRate ==
    /\ catalog = {}
    /\ db = RegisteredDb
    /\ lock = NULL
    /\ call = [p \in Procs |-> IdleCall]
    /\ calls = 0
    /\ hist = <<>>
    /\ sessions = Users
    /\ sel = NoSelection
    /\ reply = NoReply
    /\ ollama = NoOllama
    /\ reader = NoReader
    /\ response = NoResponse
    /\ credentials = RegisteredCredentials

NextRate ==
    \/ \E u \in Users, o \in Orders : RateBegin("p1", u, o)
    \/ RateStep("p1")
    \/ RateFail("p1")

SpecRate == InitRate /\ [][NextRate]_vars

----------------------------------------------------------------------------
(* Selection: the catalog changes, users rate and ask for batches.         *)

\* The files uploaded to MEDIA_DIR, and the orders rated: one of them names
\* a file that is never uploaded.
Uploads == {"a.jpg", "b.jpg", "c.jpg", "d.jpg"}

SelectOrders == {<<"e.jpg", "a.jpg">>, <<"b.jpg", "a.jpg">>}

NextSelect ==
    \/ \E f \in Uploads : CatalogAdd(f)
    \/ \E f \in Uploads : CatalogRemove(f)
    \/ \E k \in 1..MaxCount : Select("alice", k)
    \/ \E o \in SelectOrders : RateBegin("p1", "alice", o)
    \/ RateStep("p1")

SpecSelect == InitRate /\ [][NextSelect]_vars

----------------------------------------------------------------------------
(* Batch sizes: files are uploaded, alice rates and asks for batches of    *)
(* size NUM_MEDIA and well above it.                                       *)

BatchCounts == {MaxCount, 2 * MaxCount}

BatchOrders == {<<"e.jpg", "a.jpg">>}

NextBatch ==
    \/ \E f \in Uploads : CatalogAdd(f)
    \/ \E k \in BatchCounts : Select("alice", k)
    \/ \E o \in BatchOrders : RateBegin("p1", "alice", o)
    \/ RateStep("p1")

SpecBatch == InitRate /\ [][NextBatch]_vars

----------------------------------------------------------------------------
(* The whole program, from an empty store: accounts, catalog, selection    *)
(* and rating.                                                             *)

ProgramUploads == {"a.jpg", "b.jpg"}

ProgramOrders == {<<"a.jpg", "b.jpg">>}

Init ==
    /\ catalog = {}
    /\ db = EmptyDb
    /\ lock = NULL
    /\ call = [p \in Procs |-> IdleCall]
    /\ calls = 0
    /\ hist = <<>>
    /\ sessions = {}
    /\ sel = NoSelection
    /\ reply = NoReply
    /\ ollama = NoOllama
    /\ reader = NoReader
    /\ response = NoResponse
    /\ credentials = EmptyTable

Next ==
    \/ \E u \in Users, pw \in Passwords : Register(u, pw)
    \/ \E u \in Users, pw \in Passwords : Login(u, pw)
    \/ \E u \in Users : Logout(u)
    \/ \E a \in Users, t \in Users, pw \in Passwords : ChangePassword(a, t, pw)
    \/ \E a \in Users, t \in Users : DeleteUser(a, t)
    \/ \E f \in ProgramUploads : CatalogAdd(f)
    \/ \E f \in ProgramUploads : CatalogRemove(f)
    \/ \E u \in Users, k \in 1..MaxCount : Select(u, k)
    \/ \E u \in Users, o \in ProgramOrders : RateBegin("p1", u, o)
    \/ RateStep("p1")

Spec == Init /\ [][Next]_vars

----------------------------------------------------------------------------
(* Stats: users rate and query the statistics; the store returns its rows  *)
(* in any one order.                                                       *)

\* Single names leave rows of the default rating, which tie.
StatsOrders ==
    {<<"cat_1.jpg", "dog.jpg">>, <<"dog.jpg", "Cat2.png", "cat_1.jpg">>,
     <<"Cat2.png">>, <<"dog.jpg">>}

InitStats ==
    /\ catalog = {}
    /\ \E o \in Shuffles(StatsNames) : db = [RegisteredDb EXCEPT !.scan = o]
    /\ lock = NULL
    /\ call = [p \in Procs |-> IdleCall]
    /\ calls = 0
    /\ hist = <<>>
    /\ sessions = Users
    /\ sel = NoSelection
    /\ reply = NoReply
    /\ ollama = NoOllama
    /\ reader = NoReader
    /\ response = NoResponse
    /\ credentials = RegisteredCredentials

NextStats ==
    \/ \E u \in Users, o \in StatsOrders : RateBegin("p1", u, o)
    \/ RateStep("p1")
    \/ \E u \in Users, q \in Queries, l \in 0..MaxLimit : Query(u, q, l)

SpecStats == InitStats /\ [][NextStats]_vars

----------------------------------------------------------------------------
(* Duplicates: files are uploaded and an admin removes the duplicates.     *)

DedupUploads ==
    {"a.jpg", "b.jpg", "c.jpg", "d.jpg", "e.jpg", "cat_1.jpg", "Cat2.png"}

NextDedup ==
    \/ \E f \in DedupUploads : CatalogAdd(f)
    \/ \E a \in Users : RemoveDuplicates(a)

SpecDedup == InitRate /\ [][NextDedup]_vars

----------------------------------------------------------------------------
(* Accounts: registrations, logins, and the admin's password changes and   *)
(* deletions, from an empty users table.                                   *)

NextAuth ==
    \/ \E u \in Users, password \in Passwords : register_post(u, password)
    \/ \E u \in Users, password \in Passwords : login_post(u, password)
    \/ \E u \in Users : Logout(u)
    \/ \E cookie \in Cookies, target \in Users, password \in Passwords :
          admin_change_password(cookie, target, password)
    \/ \E cookie \in Cookies, target \in Users :
          admin_delete_user(cookie, target)

SpecAuth == Init /\ [][NextAuth]_vars

----------------------------------------------------------------------------
(* Requests with every kind of cookie: both users registered, nobody       *)
(* logged in at first.                                                     *)

AccessUploads == {"a.jpg"}
AccessOrders == {<<"a.jpg", "b.jpg">>}
OllamaConfigs == {[url |-> "http://ollama:11434", api_key |-> "", model |-> "llava"]}

InitAccess ==
    /\ catalog = {}
    /\ db = RegisteredDb
    /\ lock = NULL
    /\ call = [p \in Procs |-> IdleCall]
    /\ calls = 0
    /\ hist = <<>>
    /\ sessions = {}
    /\ sel = NoSelection
    /\ reply = NoReply
    /\ ollama = NoOllama
    /\ reader = NoReader
    /\ response = NoResponse
    /\ credentials = RegisteredCredentials

NextAccess ==
    \/ \E u \in Users : Login(u, "pw1")
    \/ \E u \in Users : Logout(u)
    \/ \E cookie \in Cookies, o \in AccessOrders : rate("p1", cookie, o)
    \/ RateStep("p1")
    \/ \E cookie \in Cookies : admin_change_password(cookie, "bob", "pw2")
    \/ \E cookie \in Cookies : admin_delete_user(cookie, "bob")
    \/ \E cookie \in Cookies, f \in AccessUploads : admin_upload_media(cookie, {f})
    \/ \E cookie \in Cookies, config \in OllamaConfigs :
          admin_set_ollama(cookie, config)
    \/ \E cookie \in Cookies : admin_generate_embeddings(cookie)
    \/ \E cookie \in Cookies : admin_remove_duplicates(cookie)

SpecAccess == InitAccess /\ [][NextAccess]_vars

----------------------------------------------------------------------------
(* Readers: both users submit orders, the admin deletes users, and the     *)
(* global statistics are read statement by statement meanwhile.            *)

ReaderNames == <<"a.jpg", "b.jpg">>
ReaderOrders == {<<"a.jpg", "b.jpg">>}

InitReaders ==
    /\ catalog = {}
    /\ db = [RegisteredDb EXCEPT !.scan = ReaderNames]
    /\ lock = NULL
    /\ call = [p \in Procs |-> IdleCall]
    /\ calls = 0
    /\ hist = <<>>
    /\ sessions = Users
    /\ sel = NoSelection
    /\ reply = NoReply
    /\ ollama = NoOllama
    /\ reader = NoReader
    /\ response = NoResponse
    /\ credentials = RegisteredCredentials

NextReaders ==
    \/ \E u \in Users, o \in ReaderOrders : RateBegin("p1", u, o)
    \/ RateStep("p1")
    \/ \E a \in Users, t \in Users : DeleteUser(a, t)
    \/ \E u \in Users, l \in 0..MaxLimit : StatsSelectGlobal(u, l)
    \/ StatsSelectUser

SpecReaders == InitReaders /\ [][NextReaders]_vars

----------------------------------------------------------------------------
(* Two workers serving /rate requests concurrently, both users registered  *)
(* and logged in.                                                          *)

NextConc ==
    \/ \E p \in Procs, u \in Users, o \in ConcOrders : RateBegin(p, u, o)
    \/ \E p \in Procs : RateStep(p)
    \/ \E p \in Procs : RateFail(p)
    \/ \E p \in Procs : RateBusy(p)

SpecConc == InitRate /\ [][NextConc]_vars

----------------------------------------------------------------------------
(* The handler run alone, as a function of the database *)

\* The four dictionaries after the iterations (i, j), (i, j+1), ... of the
\* nested loops.
RECURSIVE ComparePairs(_, _, _, _)
ComparePairs(mem, ids, i, j) ==
    LET n == Len(ids) IN
    IF i >= n THEN mem
    ELSE IF j > n THEN ComparePairs(mem, ids, i + 1, i + 2)
    ELSE LET w == ids[i]
             l == ids[j]
             next ==
                 [ratings |-> SetRatings(mem.ratings, w, l,
                                  WinnerNew(mem.ratings[w], mem.ratings[l]),
                                  LoserNew(mem.ratings[w], mem.ratings[l])),
                  user_ratings |-> SetRatings(mem.user_ratings, w, l,
                                  WinnerNew(mem.user_ratings[w], mem.user_ratings[l]),
                                  LoserNew(mem.user_ratings[w], mem.user_ratings[l])),
                  counts |-> IncCounts(mem.counts, w, l),
                  user_counts |-> IncCounts(mem.user_counts, w, l)]
         IN ComparePairs(next, ids, i, j + 1)

RateResult(d, username, files) ==
    LET ids == [x \in DOMAIN files |-> MediaId(files[x])]
        ms == Range(ids)
        media == InsertAllOrIgnore(d.media, ms)
        um == InsertAllOrIgnore(d.user_media, {<<username, m>> : m \in ms})
        mem == ComparePairs(
                   [ratings |-> [m \in ms |-> media[m].elo],
                    counts |-> [m \in ms |-> media[m].rating_count],
                    user_ratings |-> [m \in ms |-> um[<<username, m>>].elo],
                    user_counts |-> [m \in ms |-> um[<<username, m>>].rating_count]],
                   ids, 1, 2)
    IN [d EXCEPT
          !.rankings = Append(@, RankingRow(d.ranking_seq + 1, username, ids)),
          !.ranking_seq = @ + 1,
          !.media = [m \in DOMAIN media |->
                       IF m \in ms
                       THEN [elo |-> mem.ratings[m], rating_count |-> mem.counts[m]]
                       ELSE media[m]],
          !.user_media = [k \in DOMAIN um |->
                       IF k[1] = username /\ k[2] \in ms
                       THEN [elo |-> mem.user_ratings[k[2]],
                             rating_count |-> mem.user_counts[k[2]]]
                       ELSE um[k]]]

\* The submissions of h run one after the other from d.
RECURSIVE Replay(_, _)
Replay(d, h) ==
    IF h = <<>> THEN d
    ELSE Replay(RateResult(d, Head(h).username, Head(h).files), Tail(h))

----------------------------------------------------------------------------
(* Properties of one submission *)

Distinct(s) == \A x, y \in DOMAIN s : x # y => s[x] # s[y]

\* The count and the rating a key has in a table, a missing row counting as
\* the row its creation would give.
Count0(t, k) == IF k \in DOMAIN t THEN t[k].rating_count ELSE 0
Elo0(t, k) == IF k \in DOMAIN t THEN t[k].elo ELSE DefaultElo

Slots(row) == <<row.first_id, row.second_id, row.third_id, row.fourth_id>>

\* The items an event carries, in slot order.
EventOrder(row) == SelectSeq(Slots(row), LAMBDA x : x # NULL)

LastEvent(d) == d.rankings[Len(d.rankings)]

\* The place of the pair (i, j) in the order i = 1..n-1, j = i+1..n.
PairIndex(i, j, n) == (i - 1) * n - ((i - 1) * i) \div 2 + (j - i)

MaxOf(S) == CHOOSE x \in S : \A y \in S : y <= x

\* The rating of id left by the comparisons log[1..k-1], base if none of
\* them involves id (within one comparison the loser is written last).
SeenGlobal(log, k, id, base) ==
    LET S == {x \in 1..(k - 1) : log[x].winner_id = id \/ log[x].loser_id = id} IN
    IF S = {} THEN base
    ELSE LET e == log[MaxOf(S)] IN IF e.loser_id = id THEN e.Rb2 ELSE e.Ra2

SeenUser(log, k, id, base) ==
    LET S == {x \in 1..(k - 1) : log[x].winner_id = id \/ log[x].loser_id = id} IN
    IF S = {} THEN base
    ELSE LET e == log[MaxOf(S)] IN IF e.loser_id = id THEN e.uRb2 ELSE e.uRa2

\* C1: after a committed submission by u of n distinct names, the global
\* count of every submitted item and the count of every row (u, item) is
\* exactly n - 1 above its value before the call (0 for a row that did not
\* exist).
C1_CountAccounting ==
    \A p \in Procs :
        LET c == call[p]
            n == Len(c.files) IN
        (c.pc = "done" /\ Distinct(c.files)) =>
            \A m \in Range(c.files) :
                /\ m \in DOMAIN c.post.media
                /\ c.post.media[m].rating_count = Count0(c.pre.media, m) + n - 1
                /\ <<c.username, m>> \in DOMAIN c.post.user_media
                /\ c.post.user_media[<<c.username, m>>].rating_count =
                       Count0(c.pre.user_media, <<c.username, m>>) + n - 1

C1_Witness ==
    \E p \in Procs :
        /\ call[p].pc = "done"
        /\ Len(call[p].files) = 3
        /\ Distinct(call[p].files)
        /\ \E m \in Range(call[p].files) : Count0(call[p].pre.media, m) > 0
        /\ \E m \in Range(call[p].files) :
              Count0(call[p].pre.user_media, <<call[p].username, m>>)
                  # Count0(call[p].pre.media, m)

\* C3: a submission that fails before its commit leaves the committed
\* database exactly as it was when the call started: no rating, count, row
\* or event of the failed call is in it.
C3_FailureIsAtomic ==
    \A p \in Procs : call[p].pc = "failed" => db = call[p].pre

C3_Witness ==
    \E p \in Procs :
        /\ call[p].pc = "failed"
        /\ call[p].at = "commit"
        /\ Len(call[p].files) >= 2
        /\ \E m \in Range(call[p].files) : m \notin DOMAIN db.media
        /\ \E m \in Range(call[p].files) : Count0(db.media, m) > 0

C5_SequentialPairs ==
    \A p \in Procs :
        LET c == call[p]
            n == Len(c.files)
            u == c.username IN
        /\ \A k \in DOMAIN c.log :
              LET e == c.log[k] IN
              /\ 1 <= e.i /\ e.i < e.j /\ e.j <= n
              /\ k = PairIndex(e.i, e.j, n)
              /\ e.winner_id = c.files[e.i]
              /\ e.loser_id = c.files[e.j]
              /\ e.Ra = SeenGlobal(c.log, k, e.winner_id, Elo0(c.pre.media, e.winner_id))
              /\ e.Rb = SeenGlobal(c.log, k, e.loser_id, Elo0(c.pre.media, e.loser_id))
              /\ e.uRa = SeenUser(c.log, k, e.winner_id,
                                  Elo0(c.pre.user_media, <<u, e.winner_id>>))
              /\ e.uRb = SeenUser(c.log, k, e.loser_id,
                                  Elo0(c.pre.user_media, <<u, e.loser_id>>))
        /\ c.pc = "done" =>
              /\ Len(c.log) = (n * (n - 1)) \div 2
              /\ \A m \in Range(c.files) :
                    /\ c.post.media[m].elo =
                          SeenGlobal(c.log, Len(c.log) + 1, m, Elo0(c.pre.media, m))
                    /\ c.post.user_media[<<u, m>>].elo =
                          SeenUser(c.log, Len(c.log) + 1, m,
                                   Elo0(c.pre.user_media, <<u, m>>))

C5_Witness ==
    \E p \in Procs :
        /\ call[p].pc = "done"
        /\ Len(call[p].files) >= 3
        /\ \E k \in DOMAIN call[p].log :
              LET e == call[p].log[k] IN
              /\ e.Ra # Elo0(call[p].pre.media, e.winner_id)
              /\ e.Rb # Elo0(call[p].pre.media, e.loser_id)

\* C7 (as amended): a committed submission appends exactly one event, with
\* a fresh id and the caller's username; slot p of its four slots holds the
\* p-th submitted item and the slots past the order's length are absent.
\* Items after the fourth are not in the event.
C7_EventRecorded ==
    \A p \in Procs :
        LET c == call[p]
            q == c.pre.rankings
            r == c.post.rankings IN
        c.pc = "done" =>
            /\ Len(r) = Len(q) + 1
            /\ SubSeq(r, 1, Len(q)) = q
            /\ r[Len(r)].username = c.username
            /\ \A x \in 1..Len(q) : q[x].id # r[Len(r)].id
            /\ Slots(r[Len(r)]) =
                  [x \in 1..4 |-> IF x <= Len(c.files) THEN c.files[x] ELSE NULL]

C7_Witness ==
    /\ \E p \in Procs : call[p].pc = "done" /\ Len(call[p].files) = 5
    /\ \E x \in DOMAIN hist : Len(hist[x].files) = 0

\* C7 (as claimed): the event of a committed submission carries the
\* submitted order, whatever its length.
C7_EventCarriesWholeOrder ==
    \A p \in Procs :
        call[p].pc = "done" => EventOrder(LastEvent(call[p].post)) = call[p].files

\* C9: a committed submission of fewer than 2 items records one event,
\* makes no comparison, and leaves the rating and count of every item row
\* and user-item row as they were (a row it creates has the defaults).
C9_ShortOrder ==
    \A p \in Procs :
        LET c == call[p] IN
        (c.pc = "done" /\ Len(c.files) < 2) =>
            /\ Len(c.post.rankings) = Len(c.pre.rankings) + 1
            /\ c.log = <<>>
            /\ \A m \in DOMAIN c.post.media :
                  c.post.media[m] =
                      [elo |-> Elo0(c.pre.media, m),
                       rating_count |-> Count0(c.pre.media, m)]
            /\ \A k \in DOMAIN c.post.user_media :
                  c.post.user_media[k] =
                      [elo |-> Elo0(c.pre.user_media, k),
                       rating_count |-> Count0(c.pre.user_media, k)]
            /\ DOMAIN c.pre.media \subseteq DOMAIN c.post.media
            /\ DOMAIN c.pre.user_media \subseteq DOMAIN c.post.user_media

C9_Witness ==
    \E p \in Procs :
        /\ call[p].pc = "done"
        /\ Len(call[p].files) = 1
        /\ Elo0(call[p].pre.media, call[p].files[1]) # DefaultElo
        /\ Count0(call[p].pre.user_media, <<call[p].username, call[p].files[1]>>) > 0

----------------------------------------------------------------------------
(* Concurrent submissions *)

\* C2: submissions served concurrently never interleave their updates: the
\* committed ratings, counts and event log are at all times those of
\* running the committed submissions one after the other, in the order of
\* their commits, so no update of a committed submission is lost.
C2_Serializable == db = Replay(RegisteredDb, hist)

\* Both workers were inside /rate at the same time with orders that share
\* an item, and both have committed.
C2_Witness ==
    /\ Len(hist) = 2
    /\ \A p \in Procs : call[p].pc = "done" /\ Len(call[p].files) >= 2
    /\ \E p \in Procs : call[p].overlapped
    /\ Range(call["p1"].files) \cap Range(call["p2"].files) # {}
    /\ call["p1"].files # call["p2"].files

----------------------------------------------------------------------------
(* Selection *)

\* C6 (as claimed): the batch get_media_files returns for a listing of c
\* files and a count k >= 1 has at most min(k, c) items, all distinct, all
\* of them files of the listing.
C6_BatchWithinCatalog ==
    sel.served =>
        /\ Len(sel.result) <= Min(sel.count, Cardinality(sel.files))
        /\ Distinct(sel.result)
        /\ Range(sel.result) \subseteq sel.files

\* C10: for a listing of c <= 3 files and k >= c the batch is a permutation
\* of the whole listing, whatever the store holds.
C10_SmallCatalog ==
    (sel.served /\ Cardinality(sel.files) <= 3
                /\ sel.count >= Cardinality(sel.files)) =>
        /\ Len(sel.result) = Cardinality(sel.files)
        /\ Range(sel.result) = sel.files

C10_Witness ==
    /\ sel.served
    /\ Cardinality(sel.files) = 3
    /\ sel.count > 3
    /\ \E f \in DOMAIN db.media : f \notin sel.files /\ db.media[f].rating_count > 0

----------------------------------------------------------------------------
(* The event log over the whole program *)

IsPrefix(s, t) == Len(s) <= Len(t) /\ SubSeq(t, 1, Len(s)) = s

\* The events of log that username did not record, in their order.
RECURSIVE EventsOfOthers(_, _)
EventsOfOthers(log, username) ==
    IF log = <<>> THEN <<>>
    ELSE IF Head(log).username = username
         THEN EventsOfOthers(Tail(log), username)
         ELSE <<Head(log)>> \o EventsOfOthers(Tail(log), username)

\* C8 (as claimed): the event log is append-only, every step of the program
\* keeps the events recorded so far, unchanged and in place.
C8_AppendOnly == [][IsPrefix(db.rankings, db'.rankings)]_vars

\* C8 (amended): a step either keeps the events recorded so far, unchanged
\* and in place, or it is a delete_user that removes exactly the events of
\* one username, whose users row is gone afterwards; no event is ever
\* updated.
C8_RemovedOnlyWithUser ==
    [][\/ IsPrefix(db.rankings, db'.rankings)
       \/ \E u \in Users :
             /\ db'.rankings = EventsOfOthers(db.rankings, u)
             /\ u \notin DOMAIN db'.users]_vars

\* Events of two users were recorded and those of one were removed.
C8_Witness ==
    /\ db.rankings # <<>>
    /\ db.ranking_seq > Len(db.rankings)

\* The catalog items a selection could add as rated candidates: those of the
\* listing with a global count above zero, outside the base selection.
CatalogPool == {f \in sel.files \ sel.base : db.media[f].rating_count > 0}

\* How far the global rating of f is from the mean global rating of the base
\* selection, multiplied by the size of the base selection.
BaseDistance(f) ==
    Abs(Cardinality(sel.base) * db.media[f].elo - SumElo(db.media, sel.base))

\* C11 (as claimed): with more than 3 files in the catalog and k > 3, the
\* item added to the base selection is a rated catalog item outside the base
\* selection, none of which is strictly closer to the mean rating of the
\* base selection; only when there is no such catalog item is it one of the
\* remaining catalog items.
C11_FourthFromCatalogPool ==
    (sel.served /\ Cardinality(sel.files) > 3 /\ sel.count > 3) =>
        IF CatalogPool # {}
        THEN /\ sel.fourth \in CatalogPool
             /\ \A g \in CatalogPool : BaseDistance(sel.fourth) <= BaseDistance(g)
        ELSE sel.fourth \in sel.files \ sel.base

\* C12: a selection on an empty catalog returns the empty batch as its
\* normal result and leaves the store as it was, whatever rows it holds.
C12_EmptyCatalog ==
    [][(catalog = {} /\ sel'.served) =>
          (sel'.result = <<>> /\ db' = db)]_vars

\* An empty batch was served while the store held item rows.
C12_Witness ==
    /\ sel.served
    /\ catalog = {}
    /\ sel.files = {}
    /\ \E f \in DOMAIN db.media : db.media[f].rating_count > 0

\* C13 (as claimed): selection is read-only, it leaves the persisted store
\* exactly as it was.
C13_ReadOnly == [][sel'.served => db' = db]_vars

\* C13 (amended): a selection leaves the users, the user-item rows and the
\* event log as they were and changes no existing item row; it creates an
\* item row with the default rating and count for every catalog file that
\* has none, and writes only while no other connection holds the write
\* lock.
C13_CreatesDefaultRowsOnly ==
    [][sel'.served =>
          /\ db'.users = db.users
          /\ db'.user_media = db.user_media
          /\ db'.rankings = db.rankings
          /\ db'.ranking_seq = db.ranking_seq
          /\ DOMAIN db'.media = DOMAIN db.media \cup catalog
          /\ \A f \in DOMAIN db'.media :
                db'.media[f] = IF f \in DOMAIN db.media THEN db.media[f]
                               ELSE [elo |-> 1000, rating_count |-> 0]
          /\ catalog # {} => lock = NULL]_vars

\* A selection created item rows in a store that held rated rows.
C13_Witness ==
    /\ sel.served
    /\ sel.created
    /\ \E f \in DOMAIN db.media : db.media[f].rating_count > 0

----------------------------------------------------------------------------
(* Get-or-create *)

\* The row a table holds for key after the key was observed, given the
\* table before: the row it had, or a row of rating 1000 and count 0.
Observed(before, after, key) ==
    /\ key \in DOMAIN after
    /\ after[key] = IF key \in DOMAIN before THEN before[key]
                    ELSE [elo |-> 1000, rating_count |-> 0]

\* C14: a selection observes the catalog's names, a submission the names of
\* its order and the pairs of its user with them; every observed name or
\* pair has a row afterwards, the one it had or a new one of rating 1000 and
\* count 0, and no step removes an item row from the store.
C14_GetOrCreate ==
    [][/\ DOMAIN db.media \subseteq DOMAIN db'.media
       /\ sel'.served =>
             \A f \in catalog : Observed(db.media, db'.media, f)
       /\ \A p \in Procs :
             LET c == call[p]
                 d == call'[p]
                 before == IF c.intx THEN c.tx ELSE db IN
             /\ (c.pc = "resolve" /\ d.pc = "record") =>
                    /\ DOMAIN before.media \subseteq DOMAIN d.tx.media \/ c.files = <<>>
                    /\ \A x \in DOMAIN c.files :
                          Observed(before.media, d.tx.media, c.files[x])
             /\ (c.pc = "load" /\ d.pc \in {"compare", "store"}) =>
                    /\ DOMAIN d.tx.media = DOMAIN c.tx.media
                    /\ \A m \in Range(c.ids) :
                          /\ Observed(c.tx.user_media, d.tx.user_media,
                                      <<c.username, m>>)
                          /\ d.user_ratings[m] = d.tx.user_media[<<c.username, m>>].elo
                          /\ d.user_counts[m] =
                                d.tx.user_media[<<c.username, m>>].rating_count]_vars

\* A submission observed an item and a user-item pair that had been rated
\* before, and loaded the counts they had.
C14_Witness ==
    \E p \in Procs :
        /\ call[p].pc = "compare"
        /\ \E m \in Range(call[p].ids) :
              call[p].counts[m] > 0 /\ call[p].user_counts[m] > 0

----------------------------------------------------------------------------
(* The stats queries *)

NonIncreasing(ratings) ==
    \A x, y \in DOMAIN ratings : x < y => ratings[x] >= ratings[y]

NonDecreasing(ratings) ==
    \A x, y \in DOMAIN ratings : x < y => ratings[x] <= ratings[y]

\* C15: get_elo_rankings(limit), limit >= 0, returns at most limit rows of
\* the media table, each once, with ratings non-increasing from first to
\* last, and no row left out has a rating strictly above a returned one.
C15_Leaderboard ==
    reply.query = "get_elo_rankings" =>
        LET r == reply.result
            returned == {r[x].filename : x \in DOMAIN r} IN
        /\ Len(r) <= reply.limit
        /\ Cardinality(returned) = Len(r)
        /\ \A x \in DOMAIN r :
              /\ r[x].filename \in DOMAIN db.media
              /\ r[x].elo = db.media[r[x].filename].elo
        /\ NonIncreasing([x \in DOMAIN r |-> r[x].elo])
        /\ \A f \in DOMAIN db.media \ returned :
              \A x \in DOMAIN r : db.media[f].elo <= r[x].elo

\* A leaderboard that left out rows of a store with differing ratings.
C15_Witness ==
    /\ reply.query = "get_elo_rankings"
    /\ reply.limit > 0
    /\ Len(reply.result) = reply.limit
    /\ \E f \in DOMAIN db.media :
          db.media[f].elo < reply.result[Len(reply.result)].elo

\* The latest reply is a top/bottom reply for a limit >= 1.
TopBottomServed ==
    /\ reply.query \in {"get_user_media_stats", "get_global_media_stats_with_user"}
    /\ reply.limit >= 1

\* The items a top/bottom query lists and the rating it sorts them by.
ListedItems ==
    IF reply.query = "get_user_media_stats"
    THEN {f \in DOMAIN db.media : <<reply.username, f>> \in DOMAIN db.user_media}
    ELSE DOMAIN db.media

SortRating(f) ==
    IF reply.query = "get_user_media_stats"
    THEN db.user_media[<<reply.username, f>>].elo
    ELSE db.media[f].elo

\* The arrangements of the listed items by rating descending.
DescendingLists ==
    {l \in Shuffles(ListedItems) :
        NonIncreasing([x \in DOMAIN l |-> SortRating(l[x])])}

\* C16 (as claimed): highest is the first limit entries of the list sorted
\* by rating descending and lowest is its last limit entries, in descending
\* rating order.
C16_LowestDescending ==
    TopBottomServed =>
        LET n == Cardinality(ListedItems)
            m == Min(reply.limit, n)
            highest == reply.result.highest
            lowest == reply.result.lowest IN
        /\ Len(highest) = m
        /\ Len(lowest) = m
        /\ \E l \in DescendingLists :
              \A x \in 1..m : /\ highest[x].filename = l[x]
                              /\ lowest[x].filename = l[n - m + x]

\* C16 (amended): highest is the first limit entries of the list sorted by
\* rating descending and lowest is its last limit entries in reverse, the
\* lowest rating first.
C16_LowestAscending ==
    TopBottomServed =>
        LET n == Cardinality(ListedItems)
            m == Min(reply.limit, n)
            highest == reply.result.highest
            lowest == reply.result.lowest IN
        /\ Len(highest) = m
        /\ Len(lowest) = m
        /\ NonDecreasing([x \in DOMAIN lowest |-> SortRating(lowest[x].filename)])
        /\ \E l \in DescendingLists :
              \A x \in 1..m : /\ highest[x].filename = l[x]
                              /\ lowest[x].filename = l[n + 1 - x]

\* A lowest list of two entries with different ratings, from a list longer
\* than the limit.
C16_Witness ==
    /\ TopBottomServed
    /\ Cardinality(ListedItems) > reply.limit
    /\ Len(reply.result.lowest) >= 2
    /\ SortRating(reply.result.lowest[1].filename)
          < SortRating(reply.result.lowest[2].filename)

\* The subject each name of the stats scenario stands for: its name without
\* extension, lowercased, without underscores and digits.
SubjectOf ==
    "cat_1.jpg" :> <<"c", "a", "t">> @@
    "Cat2.png" :> <<"c", "a", "t">> @@
    "dog.jpg" :> <<"d", "o", "g">>

\* C17: get_name_group_elo_stats partitions the items of the store by
\* normalized key: every item is in exactly one group; a group's count and
\* total are the number of its members and the sum of their global counts,
\* its minimum, maximum and mean those of their global ratings; the groups
\* come in non-increasing order of mean.
C17_GroupedStats ==
    reply.query = "get_name_group_elo_stats" =>
        LET r == reply.result
            items == DOMAIN db.media
            members(x) == {f \in items : SubjectOf[f] = r[x].name} IN
        /\ \A f \in items :
              Cardinality({x \in DOMAIN r : r[x].name = SubjectOf[f]}) = 1
        /\ \A x \in DOMAIN r :
              /\ members(x) # {}
              /\ r[x].count = Cardinality(members(x))
              /\ r[x].total_ratings = SumCount(db.media, members(x))
              /\ \E f \in members(x) : db.media[f].elo = r[x].mn
              /\ \E f \in members(x) : db.media[f].elo = r[x].mx
              /\ \A f \in members(x) :
                    r[x].mn <= db.media[f].elo /\ db.media[f].elo <= r[x].mx
              /\ r[x].avg[2] > 0
              /\ r[x].avg[1] * Cardinality(members(x)) =
                    SumElo(db.media, members(x)) * r[x].avg[2]
        /\ \A x, y \in DOMAIN r :
              x < y => r[x].avg[1] * r[y].avg[2] >= r[y].avg[1] * r[x].avg[2]

\* Two groups, one of them of two items with different ratings.
C17_Witness ==
    /\ reply.query = "get_name_group_elo_stats"
    /\ Len(reply.result) = 2
    /\ \E x \in DOMAIN reply.result :
          reply.result[x].count = 2 /\ reply.result[x].mn < reply.result[x].mx

----------------------------------------------------------------------------
(* Deleting a user *)

\* C19 (as claimed): once delete_user(u) has removed the users row of u, the
\* store holds no event and no user-item row of u.
C19_DeleteRemovesRatingData ==
    [][\A u \in Users :
          (u \in DOMAIN db.users /\ u \notin DOMAIN db'.users) =>
             /\ \A x \in DOMAIN db'.rankings : db'.rankings[x].username # u
             /\ \A key \in DOMAIN db'.user_media : key[1] # u]_vars

----------------------------------------------------------------------------
(* Duplicate images *)

\* C20 (as claimed): after remove_duplicate_images exactly one file remains
\* of every set of catalog images with identical pixel data (the same mode,
\* size and pixels), and every image that is the only one with its pixel
\* data, and every file that is not an image, is still present.
C20_OnePerImage ==
    [][catalog' \subseteq catalog =>
          \A f \in catalog :
             IF FileContent[f].image
             THEN Cardinality({g \in catalog' : FileContent[g] = FileContent[f]}) = 1
             ELSE f \in catalog']_vars

----------------------------------------------------------------------------
(* Accounts and identity *)

\* C21: whatever registrations, password changes and deletions came before,
\* a login with username u and password p is answered 303 to / with the
\* session cookie of u exactly when u is registered (and not deleted since)
\* and p is the password last set for u; every other login is answered 400,
\* sets no cookie and issues no session.
C21_LoginByLastPassword ==
    [][response'.handler = "login_post" =>
          LET u == response'.username
              p == response'.password IN
          IF u \in DOMAIN credentials /\ credentials[u] = p
          THEN /\ response'.status = 303
               /\ response'.location = "/"
               /\ response'.set_cookie = SessionCookie(u)
               /\ sessions' = sessions \cup {u}
          ELSE /\ response'.status = 400
               /\ response'.set_cookie = NULL
               /\ sessions' = sessions]_vars

\* A login with the second password is answered 303 and the browser of
\* that user holds the session.
C21_Witness ==
    /\ response.handler = "login_post"
    /\ response.status = 303
    /\ response.password = "pw2"
    /\ response.username \in sessions

\* C22: a request without the required identity has no effect. A /rate
\* request whose cookies hold no session token signed by the server, and a
\* request of one of the six admin operations whose cookies hold no signed
\* token of a user of the admin allow-list, is answered by a redirection to
\* /login that sets no cookie, and the step leaves the store, the catalog,
\* the configuration, the sessions and the requests in progress as they
\* were.
AdminHandlers ==
    {"admin_change_password", "admin_delete_user", "admin_upload_media",
     "admin_set_ollama", "admin_generate_embeddings", "admin_remove_duplicates"}

\* The user the request's cookies prove, or NULL.
ProvenCaller(cookie) ==
    IF cookie = NoCookie \/ ~cookie.signed THEN NULL ELSE cookie.username

----------------------------------------------------------------------------
(* The sizes of the top/bottom lists *)

\* C23 (as claimed): whatever the store holds and whatever limit >= 0 is
\* asked for, limit = 0 included, the highest list and the lowest list of
\* get_user_media_stats and of get_global_media_stats_with_user each hold at
\* most limit entries.
C23_AtMostLimit ==
    reply.query \in {"get_user_media_stats", "get_global_media_stats_with_user"} =>
        /\ Len(reply.result.highest) <= reply.limit
        /\ Len(reply.result.lowest) <= reply.limit

----------------------------------------------------------------------------
(* Global and per-user counts *)

\* The sum of the rating_count of the rows of user_media with the given keys.
RECURSIVE CountSum(_, _)
CountSum(user_media, keys) ==
    IF keys = {} THEN 0
    ELSE LET k == CHOOSE x \in keys : TRUE IN
         user_media[k].rating_count + CountSum(user_media, keys \ {k})

----------------------------------------------------------------------------
(* What a submission touches *)

\* The ratings a user's rows end with, from the user's ratings r of the
\* named items before the call and the order alone: the pairs (i, j), i < j,
\* in the order of the loops, each on the ratings the earlier pairs left.
RECURSIVE UserRatingsAfter(_, _, _, _)
UserRatingsAfter(r, files, i, j) ==
    LET n == Len(files) IN
    IF i >= n THEN r
    ELSE IF j > n THEN UserRatingsAfter(r, files, i + 1, i + 2)
    ELSE LET w == files[i]
             l == files[j]
             next == [x \in DOMAIN r |->
                         IF x = l THEN LoserNew(r[w], r[l])
                         ELSE IF x = w THEN WinnerNew(r[w], r[l])
                         ELSE r[x]]
         IN UserRatingsAfter(next, files, i, j + 1)

\* C25: a committed submission of user u leaves every media row of an item
\* the order does not name, and every user_media row other than the rows
\* (u, item) of the named items, as it was before the call, and it removes
\* no row; the ratings of the rows (u, item) after the call are those that
\* u's ratings of the named items before the call (1000 where there was no
\* row) and the order determine, whatever the global ratings and the rows
\* of other users are.
C25_FrameAndOwnRatings ==
    \A p \in Procs :
        LET c == call[p]
            u == c.username
            named == Range(c.files)
            prior == [f \in named |-> Elo0(c.pre.user_media, <<u, f>>)]
            after == UserRatingsAfter(prior, c.files, 1, 2) IN
        c.pc = "done" =>
            /\ DOMAIN c.pre.media \subseteq DOMAIN c.post.media
            /\ DOMAIN c.pre.user_media \subseteq DOMAIN c.post.user_media
            /\ \A f \in DOMAIN c.post.media \ named :
                  f \in DOMAIN c.pre.media /\ c.post.media[f] = c.pre.media[f]
            /\ \A k \in DOMAIN c.post.user_media :
                  (k[1] # u \/ k[2] \notin named) =>
                      /\ k \in DOMAIN c.pre.user_media
                      /\ c.post.user_media[k] = c.pre.user_media[k]
            /\ \A f \in named :
                  /\ <<u, f>> \in DOMAIN c.post.user_media
                  /\ c.post.user_media[<<u, f>>].elo = after[f]

\* A committed submission of two or more items, made when the store held an
\* item the order does not name, a row of another user for a named item and
\* a named item whose global rating differs from the user's rating of it.
C25_Witness ==
    \E p \in Procs :
        LET c == call[p]
            u == c.username
            named == Range(c.files) IN
        /\ c.pc = "done"
        /\ Len(c.files) >= 2
        /\ DOMAIN c.pre.media \ named # {}
        /\ \E k \in DOMAIN c.pre.user_media :
              k[1] # u /\ k[2] \in named /\ c.pre.user_media[k].rating_count > 0
        /\ \E f \in named :
              /\ f \in DOMAIN c.pre.media
              /\ c.pre.media[f].elo # Elo0(c.pre.user_media, <<u, f>>)

----------------------------------------------------------------------------
(* The size of a batch *)

\* C26: get_media_files returns at most 4 names however large count is, and
\* for a listing of 4 or more files and count >= 4 it returns exactly 4
\* different names, the 3 of the base selection and one more, whether the
\* store holds rated items or not.
C26_AtMostFour ==
    sel.served =>
        /\ Len(sel.result) <= 4
        /\ (Cardinality(sel.files) >= 4 /\ sel.count >= 4) =>
              /\ Len(sel.result) = 4
              /\ Distinct(sel.result)
              /\ Cardinality(sel.base) = 3
              /\ sel.fourth \notin sel.base
              /\ Range(sel.result) = sel.base \cup {sel.fourth}

\* A batch asked for with a count above 4 from a listing of 4 files, a rated
\* item being in the store.
C26_Witness ==
    /\ sel.served
    /\ sel.count > 4
    /\ Cardinality(sel.files) >= 4
    /\ \E f \in DOMAIN db.media : db.media[f].rating_count > 0

====
